---- MODULE Spec2Model ----
(***************************************************************************)
(* Model of the shard-partitioning / availability / routing engine         *)
(* (FileList) and of the Utilities helpers it relies on (getRandomElement, *)
(* getRandomElements, checkUrls, wait).                                     *)
(*                                                                         *)
(* Strings that the code hashes (file paths) are sequences of byte codes,  *)
(* so that CRC-32 is computed, not assumed.  JavaScript runs each call to  *)
(* completion, so a synchronous method is one action; checkUrls, which     *)
(* awaits, is one action per resumption.                                   *)
(***************************************************************************)
EXTENDS Integers, Sequences, FiniteSets, TLC

VARIABLES
    files,          \* FileList._files
    clusters,       \* FileList._clusters
    shards,         \* FileList._shards : [0..SHARD_COUNT-1 -> Seq(File)]
    pc,             \* "idle" | "returned": a FileList call has just returned
    ret,            \* the last FileList call with its arguments and result
    cuPc,           \* checkUrls: "idle" | "loop" | "fetching" | "waiting" | "done"
    urls,           \* checkUrls: the argument
    cuI,            \* checkUrls: number of urls the for-of loop has finished
    results,        \* checkUrls: the results array
    net,            \* what the network answered, per fetch issued (environment log)
    inFlight,       \* number of axios.get calls issued and not yet settled
    waited,         \* whether wait(2) elapsed since the last fetch was issued
    rePc,           \* getRandomElements: "idle" | "loop" | "returned" | "threw"
    array,          \* getRandomElements: the source array
    count,          \* getRandomElements: the count argument
    allowDuplicates,\* getRandomElements: the allowDuplicates argument
    tempArray,      \* getRandomElements: the working copy
    tempPos,        \* source position of each element of tempArray
    reI,            \* getRandomElements: loop counter i
    result,         \* getRandomElements: the result array
    resultPos,      \* source position of each element of result
    array0          \* the source array as it was passed

flVars == <<files, clusters, shards, pc, ret>>
cuVars == <<cuPc, urls, cuI, results, net, inFlight, waited>>
reVars == <<rePc, array, count, allowDuplicates, tempArray, tempPos, reI, result,
            resultPos, array0>>
vars == <<flVars, cuVars, reVars>>

----------------------------------------------------------------------------
(* JavaScript values *)

undefined == [some |-> FALSE]
null == [some |-> FALSE]
Some(x) == [some |-> TRUE, val |-> x]

Range(s) == {s[k] : k \in 1..Len(s)}

Abs(x) == IF x < 0 THEN -x ELSE x

----------------------------------------------------------------------------
(* crc32.str: CRC-32/ISO-HDLC (reflected, polynomial 0xEDB88320, initial    *)
(* value and final xor 0xFFFFFFFF), returned as a signed 32-bit integer.   *)
(* A 32-bit word is kept as <<high 16 bits, low 16 bits>>.                  *)

RECURSIVE XorBits(_, _, _)
XorBits(a, b, n) ==
    IF n = 0 THEN 0
    ELSE (((a % 2) + (b % 2)) % 2) + 2 * XorBits(a \div 2, b \div 2, n - 1)

crcShift(c) ==
    LET hi1 == c[1] \div 2
        lo1 == (c[2] \div 2) + (c[1] % 2) * 32768
    IN  IF c[2] % 2 = 1
        THEN <<XorBits(hi1, 60856, 16), XorBits(lo1, 33568, 16)>>
        ELSE <<hi1, lo1>>

RECURSIVE crcShiftN(_, _)
crcShiftN(c, n) == IF n = 0 THEN c ELSE crcShiftN(crcShift(c), n - 1)

crcByte(c, b) == crcShiftN(<<c[1], XorBits(c[2], b, 16)>>, 8)

RECURSIVE crcBytes(_, _)
crcBytes(c, bytes) ==
    IF bytes = <<>> THEN c ELSE crcBytes(crcByte(c, Head(bytes)), Tail(bytes))

crc32_compute(bytes) ==
    LET c  == crcBytes(<<65535, 65535>>, bytes)
        hi == 65535 - c[1]
        lo == 65535 - c[2]
    IN  IF hi >= 32768 THEN (hi - 65536) * 65536 + lo ELSE hi * 65536 + lo

----------------------------------------------------------------------------
(* Inputs: paths, file records, cluster records *)

PathFj == <<47, 102, 106>>      \* "/fj"   crc32 =  1385209000
PathA  == <<47, 97>>            \* "/a"    crc32 =  1768979292
PathHo == <<47, 104, 111>>      \* "/ho"   crc32 = -1132902999
PathBx == <<47, 98, 120>>       \* "/bx"   crc32 =  -985323292

Paths == {PathFj, PathA, PathBx, PathHo}

\* crc32.str over the paths of the model, computed once
crcTable == [p \in Paths |-> crc32_compute(p)]

crc32_str(value) == crcTable[value]

SHARD_COUNT == 1000

\* a JavaScript value used as a condition
Truthy(v) == v.some /\ v.val # ""

HashOf(p) ==
    IF p = PathFj THEN "h1" ELSE IF p = PathA THEN "h2"
    ELSE IF p = PathBx THEN "h3" ELSE "h4"

\* File records: url is optional
Files ==
    {[path |-> p, hash |-> HashOf(p), url |-> u] :
        p \in Paths, u \in {undefined, Some("https://origin")}}

----------------------------------------------------------------------------
(* FileList: static helpers *)

getShardIndex(value, totalShards) ==
    LET crcValue == Abs(crc32_str(value)) IN crcValue % totalShards

\* objects.forEach(obj => shards[shardIndex].push(obj)), from the object at k on
RECURSIVE pushAll(_, _, _, _)
pushAll(acc, objects, k, totalShards) ==
    IF k > Len(objects) THEN acc
    ELSE LET shardIndex == getShardIndex(objects[k].path, totalShards)
         IN  pushAll([acc EXCEPT ![shardIndex] = Append(@, objects[k])],
                     objects, k + 1, totalShards)

\* the loop stops one object short
splitIntoShards_dropLast(objects, totalShards) ==
    pushAll([i \in 0..(totalShards - 1) |-> <<>>],
            SubSeq(objects, 1, Len(objects) - 1), 1, totalShards)

splitIntoShards(objects, totalShards) ==
    pushAll([i \in 0..(totalShards - 1) |-> <<>>], objects, 1, totalShards)

\* the proxy rule left out
availableInCluster_noProxyRule(file, cluster) ==
    LET index == getShardIndex(file.path, SHARD_COUNT)
    IN  index <= cluster.shards

availableInCluster(file, cluster) ==
    IF ~Truthy(file.url) /\ cluster.isProxyCluster THEN FALSE
    ELSE LET index == getShardIndex(file.path, SHARD_COUNT)
         IN  index <= cluster.shards

----------------------------------------------------------------------------
(* Bounds and input sets *)

MaxFiles == 2       \* longest catalog passed to the constructor or the setter
MaxPool == 2        \* longest cluster list registered or passed to a call

SeqsUpTo(S, n) == UNION {[1..k -> S] : k \in 0..n}

Catalogs == SeqsUpTo(Files, MaxFiles)

Cluster(id, s, online, banned, proxy) ==
    [clusterId |-> id, shards |-> s, isOnline |-> online, isBanned |-> banned,
     isProxyCluster |-> proxy]

ShardValues == {0, getShardIndex(PathA, SHARD_COUNT), SHARD_COUNT}

\* the clusters getAvailableFiles is asked about: every combination of the two
\* fields it reads
ClusterEntities == {Cluster("c", s, TRUE, FALSE, px) : s \in ShardValues, px \in BOOLEAN}

\* the clusters that cluster lists are drawn from, by ascending id
ClusterTable ==
    << Cluster("c1", 0, TRUE, FALSE, FALSE),
       Cluster("c2", getShardIndex(PathA, SHARD_COUNT), TRUE, FALSE, FALSE),
       Cluster("c3", SHARD_COUNT, TRUE, FALSE, FALSE),
       Cluster("c4", SHARD_COUNT, TRUE, FALSE, TRUE),
       Cluster("c5", SHARD_COUNT, FALSE, FALSE, FALSE),
       Cluster("c6", SHARD_COUNT, TRUE, TRUE, TRUE) >>

RECURSIVE SubSeqOf(_, _, _)
SubSeqOf(table, k, chosen) ==
    IF k > Len(table) THEN <<>>
    ELSE (IF k \in chosen THEN <<table[k]>> ELSE <<>>) \o SubSeqOf(table, k + 1, chosen)

Pools ==
    {SubSeqOf(ClusterTable, 1, chosen) :
        chosen \in {c \in SUBSET (1..Len(ClusterTable)) : Cardinality(c) <= MaxPool}}

----------------------------------------------------------------------------
(* FileList: methods.  The object's fields are the variables files,        *)
(* clusters and shards.                                                     *)

notifyUpdateShards(fs) == splitIntoShards(fs, SHARD_COUNT)

getFile(type, value) ==
    IF type = "path"
    THEN LET index == getShardIndex(value, SHARD_COUNT)
             found == SelectSeq(shards[index], LAMBDA file : file.path = value)
         IN  IF found = <<>> THEN undefined ELSE Some(Head(found))
    ELSE LET found == SelectSeq(files, LAMBDA file : file.hash = value)
         IN  IF found = <<>> THEN undefined ELSE Some(Head(found))

\* this._shards.filter((_, index) => cluster.shards >= index).flat(), over the
\* buckets lo..hi in index order (halving keeps the evaluation shallow)
RECURSIVE flatShards(_, _, _)
flatShards(cluster, lo, hi) ==
    IF lo > hi THEN <<>>
    ELSE IF lo = hi THEN (IF cluster.shards >= lo THEN shards[lo] ELSE <<>>)
    ELSE LET mid == (lo + hi) \div 2
         IN  flatShards(cluster, lo, mid) \o flatShards(cluster, mid + 1, hi)

getAvailableFiles(cluster) ==
    SelectSeq(flatShards(cluster, 0, SHARD_COUNT - 1),
              LAMBDA f : Truthy(f.url) \/ ~cluster.isProxyCluster)

\* the ban check left out of the filter
getAvailableClusters_noBanCheck(file, cs) ==
    LET values == SelectSeq(IF cs.some THEN cs.val ELSE clusters, LAMBDA c : c.isOnline)
    IN  IF ~file.some THEN values
        ELSE SelectSeq(values, LAMBDA cluster : availableInCluster(file.val, cluster))

getAvailableClusters(file, cs) ==
    LET values == SelectSeq(IF cs.some THEN cs.val ELSE clusters,
                            LAMBDA c : c.isOnline /\ ~c.isBanned)
    IN  IF ~file.some THEN values
        ELSE SelectSeq(values, LAMBDA cluster : availableInCluster(file.val, cluster))

\* Utilities.getRandomElement: every value a draw of Math.random() can give
\* the index rounded up instead of down: it can be arr.length
getRandomElement_roundUp(arr) ==
    IF Len(arr) = 0 THEN {undefined}
    ELSE {IF randomIndex < Len(arr) THEN Some(arr[randomIndex + 1]) ELSE undefined :
            randomIndex \in 0..Len(arr)}

getRandomElement(arr) ==
    IF Len(arr) = 0 THEN {undefined}
    ELSE {Some(arr[randomIndex + 1]) : randomIndex \in 0..(Len(arr) - 1)}

randomAvailableCluster(file, cs) ==
    LET availableClusters == getAvailableClusters(Some(file), cs)
    IN  {IF e.some THEN e ELSE null : e \in getRandomElement(availableClusters)}

----------------------------------------------------------------------------
(* FileList: actions.  A call runs to completion; the caller then takes   *)
(* the result (Return) before the next call starts.                        *)

NoCall == [op |-> "none"]

Constructor(fs, cs) ==
    /\ files = (IF fs.some THEN fs.val ELSE <<>>)
    /\ clusters = (IF cs.some THEN cs.val ELSE <<>>)
    /\ shards = notifyUpdateShards(files)
    /\ pc = "idle"
    /\ ret = NoCall

\* the setter without its call of notifyUpdateShards
SetFiles_noRebuild(fs) ==
    /\ pc = "idle"
    /\ files' = fs
    /\ UNCHANGED <<clusters, shards, pc, ret>>

SetFiles(fs) ==
    /\ pc = "idle"
    /\ files' = fs
    /\ shards' = notifyUpdateShards(fs)
    /\ UNCHANGED <<clusters, pc, ret>>

SetClusters(cs) ==
    /\ pc = "idle"
    /\ clusters' = cs
    /\ UNCHANGED <<files, shards, pc, ret>>

\* the getters files and shards, read in one synchronous step
GetFilesAndShards ==
    /\ pc = "idle"
    /\ pc' = "returned"
    /\ ret' = [op |-> "get", files |-> files, shards |-> shards]
    /\ UNCHANGED <<files, clusters, shards>>

GetFile(type, value) ==
    /\ pc = "idle"
    /\ pc' = "returned"
    /\ ret' = [op |-> "getFile", type |-> type, value |-> value,
               result |-> getFile(type, value)]
    /\ UNCHANGED <<files, clusters, shards>>

GetAvailableFiles(cluster) ==
    /\ pc = "idle"
    /\ pc' = "returned"
    /\ ret' = [op |-> "getAvailableFiles", cluster |-> cluster,
               result |-> getAvailableFiles(cluster)]
    /\ UNCHANGED <<files, clusters, shards>>

GetAvailableClusters(file, cs) ==
    /\ pc = "idle"
    /\ pc' = "returned"
    /\ ret' = [op |-> "getAvailableClusters", file |-> file, clusters |-> cs,
               result |-> getAvailableClusters(file, cs)]
    /\ UNCHANGED <<files, clusters, shards>>

RandomAvailableCluster(file, cs) ==
    /\ pc = "idle"
    /\ \E r \in randomAvailableCluster(file, cs) :
          /\ pc' = "returned"
          /\ ret' = [op |-> "randomAvailableCluster", file |-> Some(file),
                     clusters |-> cs, result |-> r]
    /\ UNCHANGED <<files, clusters, shards>>

Return ==
    /\ pc = "returned"
    /\ pc' = "idle"
    /\ ret' = NoCall
    /\ UNCHANGED <<files, clusters, shards>>

----------------------------------------------------------------------------
(* Utilities.checkUrls and Utilities.getRandomElements at rest *)

CheckUrlsIdle ==
    /\ cuPc = "idle" /\ urls = <<>> /\ cuI = 0 /\ results = <<>> /\ net = <<>>
    /\ inFlight = 0 /\ waited = FALSE

RandomIdle ==
    /\ rePc = "idle" /\ array = <<>> /\ count = 0 /\ allowDuplicates = TRUE
    /\ tempArray = <<>> /\ tempPos = <<>> /\ reI = 0 /\ result = <<>>
    /\ resultPos = <<>> /\ array0 = <<>>

----------------------------------------------------------------------------
(* The catalog: construction, replacement and its readers *)

InitCatalog ==
    /\ \E fs \in {undefined} \cup {Some(c) : c \in Catalogs} : Constructor(fs, undefined)
    /\ CheckUrlsIdle
    /\ RandomIdle

NextCatalog ==
    \/ (\E fs \in Catalogs : SetFiles(fs)) /\ UNCHANGED <<cuVars, reVars>>
    \/ GetFilesAndShards /\ UNCHANGED <<cuVars, reVars>>
    \/ (\E p \in Paths : GetFile("path", p)) /\ UNCHANGED <<cuVars, reVars>>
    \/ (\E p \in Paths : GetFile("hash", HashOf(p))) /\ UNCHANGED <<cuVars, reVars>>
    \/ (\E c \in ClusterEntities : GetAvailableFiles(c)) /\ UNCHANGED <<cuVars, reVars>>
    \/ Return /\ UNCHANGED <<cuVars, reVars>>

SpecCatalog == InitCatalog /\ [][NextCatalog]_vars

----------------------------------------------------------------------------
(* Routing: the registered clusters and the per-request calls *)

FileArgs == {null} \cup {Some(f) : f \in Files}
PoolArgs == {undefined} \cup {Some(p) : p \in Pools}

InitRoute ==
    /\ \E fs \in {undefined, Some(<<CHOOSE f \in Files : f.path = PathA /\ f.url.some>>)} :
         \E cs \in PoolArgs : Constructor(fs, cs)
    /\ CheckUrlsIdle
    /\ RandomIdle

NextRoute ==
    \/ (\E cs \in Pools : SetClusters(cs)) /\ UNCHANGED <<cuVars, reVars>>
    \/ (\E file \in FileArgs, cs \in PoolArgs : GetAvailableClusters(file, cs))
            /\ UNCHANGED <<cuVars, reVars>>
    \/ (\E file \in Files, cs \in PoolArgs : RandomAvailableCluster(file, cs))
            /\ UNCHANGED <<cuVars, reVars>>
    \/ Return /\ UNCHANGED <<cuVars, reVars>>

SpecRoute == InitRoute /\ [][NextRoute]_vars

----------------------------------------------------------------------------
(* Properties of the catalog and of routing *)

Returned(op) == pc = "returned" /\ ret.op = op

\* the cluster list a returned call worked on
PoolUsed == IF ret.clusters.some THEN ret.clusters.val ELSE clusters

\* C1: for every file, every cluster that getAvailableClusters returns has
\* shardIndex(file.path) < cluster.shards (so a cluster with shards = 0 is
\* returned for no file), and an online, unbanned cluster of the pool with
\* shards = SHARD_COUNT is returned unless the proxy rule excludes it.
C1_EligibleBelowCapacity ==
    (Returned("getAvailableClusters") /\ ret.file.some) =>
        /\ \A c \in Range(ret.result) :
              getShardIndex(ret.file.val.path, SHARD_COUNT) < c.shards
        /\ \A c \in Range(PoolUsed) :
              (/\ c.isOnline /\ ~c.isBanned /\ c.shards = SHARD_COUNT
               /\ (Truthy(ret.file.val.url) \/ ~c.isProxyCluster))
                  => c \in Range(ret.result)

\* C2: every cluster getAvailableClusters returns, for any file argument (null
\* included) and any pool (the registered clusters when it is omitted), is a
\* member of that pool, online and not banned.
C2_OnlyOnlineUnbannedOfPool ==
    Returned("getAvailableClusters") =>
        \A c \in Range(ret.result) :
            c \in Range(PoolUsed) /\ c.isOnline /\ ~c.isBanned

C2_Witness ==
    /\ Returned("getAvailableClusters")
    /\ ~ret.file.some
    /\ ~ret.clusters.some
    /\ \E c \in Range(clusters) : c.isBanned \/ ~c.isOnline
    /\ ret.result # <<>>

\* the same file with the origin URL present / absent
WithUrl(f) == [f EXCEPT !.url = Some("https://origin")]
WithoutUrl(f) == [f EXCEPT !.url = undefined]
NonProxy(cs) == SelectSeq(cs, LAMBDA c : ~c.isProxyCluster)

\* C3: for a file without url getAvailableClusters returns no proxy cluster, and
\* the non-proxy clusters returned for a file are the same whether or not the
\* file has a url (same path, same pool).
C3_ProxyRule ==
    (Returned("getAvailableClusters") /\ ret.file.some) =>
        /\ ~Truthy(ret.file.val.url) => \A c \in Range(ret.result) : ~c.isProxyCluster
        /\ NonProxy(ret.result)
             = NonProxy(getAvailableClusters(Some(WithUrl(ret.file.val)), ret.clusters))
        /\ NonProxy(ret.result)
             = NonProxy(getAvailableClusters(Some(WithoutUrl(ret.file.val)), ret.clusters))

C3_Witness ==
    /\ Returned("getAvailableClusters")
    /\ ret.file.some
    /\ ~Truthy(ret.file.val.url)
    /\ \E c \in Range(PoolUsed) : c.isProxyCluster /\ c.isOnline /\ ~c.isBanned
    /\ ret.result # <<>>

\* C4: getAvailableFiles returns exactly the catalog records with
\* shardIndex(path) < cluster.shards, without the records that have no url when
\* the cluster is a proxy cluster; none for a cluster with shards = 0.
C4_ListBelowCapacity ==
    Returned("getAvailableFiles") =>
        Range(ret.result)
          = {f \in Range(files) :
                /\ getShardIndex(f.path, SHARD_COUNT) < ret.cluster.shards
                /\ (Truthy(f.url) \/ ~ret.cluster.isProxyCluster)}

\* the buckets a record occurs in
BucketsOf(r) == {i \in DOMAIN shards : r \in Range(shards[i])}

\* C5: the partition has exactly SHARD_COUNT buckets, no record is in two
\* buckets, the buckets together hold exactly the records of the catalog, each
\* record is in the bucket of its path's shard index, and building the
\* partition from the record set again gives the same buckets.
C5_PartitionInvariant ==
    /\ DOMAIN shards = 0..(SHARD_COUNT - 1)
    /\ \A r \in Range(files) :
          BucketsOf(r) = {getShardIndex(r.path, SHARD_COUNT)}
    /\ UNION {Range(shards[i]) : i \in DOMAIN shards} = Range(files)
    /\ splitIntoShards(files, SHARD_COUNT) = shards

C5_Witness ==
    /\ Len(files) = 2
    /\ files[1].path # files[2].path
    /\ Len(shards[getShardIndex(PathA, SHARD_COUNT)]) = 2

FirstWithPath(fs, p) ==
    LET found == SelectSeq(fs, LAMBDA f : f.path = p)
    IN  IF found = <<>> THEN undefined ELSE Some(Head(found))

\* C6: whatever replacements came before, a reader sees the partition of the
\* record set that is current: the getters return a partition that is the one of
\* the record set returned with it, a lookup by path finds what the record set
\* holds, and a listing holds only records of the record set.
C6_ReadersSeeOneCatalog ==
    /\ Returned("get") =>
          \A i \in 0..(SHARD_COUNT - 1) :
              ret.shards[i]
                = SelectSeq(ret.files, LAMBDA f : getShardIndex(f.path, SHARD_COUNT) = i)
    /\ (Returned("getFile") /\ ret.type = "path") =>
          ret.result = FirstWithPath(files, ret.value)
    /\ Returned("getAvailableFiles") => Range(ret.result) \subseteq Range(files)

C6_Witness ==
    /\ Returned("getFile")
    /\ ret.type = "path"
    /\ ret.result.some
    /\ Len(files) = 2
    /\ files[2].path = ret.value

\* C7: randomAvailableCluster returns null exactly when getAvailableClusters
\* gives no cluster for the file, otherwise one of the clusters it gives, and
\* the call leaves files, shards and clusters as they were.
C7_RandomOrNull ==
    [][(pc = "idle" /\ pc' = "returned" /\ ret'.op = "randomAvailableCluster") =>
          LET eligible == getAvailableClusters(ret'.file, ret'.clusters)
          IN  /\ ~ret'.result.some <=> eligible = <<>>
              /\ ret'.result.some => ret'.result.val \in Range(eligible)
              /\ files' = files /\ shards' = shards /\ clusters' = clusters]_vars

C7_Witness ==
    /\ Returned("randomAvailableCluster")
    /\ ~ret.result.some
    /\ PoolUsed # <<>>
    /\ \E c \in Range(PoolUsed) : c.isOnline /\ ~c.isBanned

----------------------------------------------------------------------------
(* Utilities.checkUrls.  One action per resumption of the async function:  *)
(* the call runs to the first axios.get, a settled fetch runs to the next   *)
(* await (wait(2) after a success, the next axios.get or the return after a *)
(* failure), an elapsed wait runs to the next axios.get or the return.      *)

MaxUrls == 3        \* longest list passed to checkUrls

Urls == {"https://a", "https://b"}
Bodies == {"", "abc"}

UrlLists == SeqsUpTo(Urls, MaxUrls)

\* crypto.createHash('sha256').update(responseData).digest('hex')
sha256hex(responseData) ==
    IF responseData = ""
    THEN "e3b0c44298fc1c149afbf4c8996fb92427ae41e4649b934ca495991b7852b855"
    ELSE "ba7816bf8f01cfea414140de5dae2223b00361a396177a9cb410ff61f20015ad"

CheckUrls(us) ==
    /\ cuPc = "idle"
    /\ urls' = us
    /\ results' = <<>>
    /\ net' = <<>>
    /\ cuI' = 0
    /\ waited' = FALSE
    /\ IF 0 < Len(us)
       THEN cuPc' = "fetching" /\ inFlight' = 1
       ELSE cuPc' = "done" /\ inFlight' = 0

\* axios.get resolved: hash, push, then await this.wait(2)
FetchResolved(responseData) ==
    /\ cuPc = "fetching"
    /\ LET url == urls[cuI + 1]
           hash == sha256hex(responseData)
       IN  /\ results' = Append(results, [url |-> url, hash |-> hash])
           /\ net' = Append(net, [url |-> url, ok |-> TRUE, data |-> responseData])
    /\ inFlight' = inFlight - 1
    /\ waited' = FALSE
    /\ cuPc' = "waiting"
    /\ UNCHANGED <<urls, cuI>>

\* a failed fetch makes the promise of checkUrls reject
FetchRejected_abort ==
    /\ cuPc = "fetching"
    /\ net' = Append(net, [url |-> urls[cuI + 1], ok |-> FALSE, data |-> ""])
    /\ inFlight' = inFlight - 1
    /\ waited' = FALSE
    /\ cuPc' = "done"
    /\ UNCHANGED <<urls, cuI, results>>

\* axios.get rejected: the catch block pushes "error"; the loop goes on at once
FetchRejected ==
    /\ cuPc = "fetching"
    /\ LET url == urls[cuI + 1]
       IN  /\ results' = Append(results, [url |-> url, hash |-> "error"])
           /\ net' = Append(net, [url |-> url, ok |-> FALSE, data |-> ""])
    /\ cuI' = cuI + 1
    /\ waited' = FALSE
    /\ IF cuI + 1 < Len(urls)
       THEN cuPc' = "fetching" /\ inFlight' = inFlight - 1 + 1
       ELSE cuPc' = "done" /\ inFlight' = inFlight - 1
    /\ UNCHANGED urls

\* the timer of wait(2) fired: the loop goes on
WaitElapsed ==
    /\ cuPc = "waiting"
    /\ cuI' = cuI + 1
    /\ waited' = TRUE
    /\ IF cuI + 1 < Len(urls)
       THEN cuPc' = "fetching" /\ inFlight' = inFlight + 1
       ELSE cuPc' = "done" /\ inFlight' = inFlight
    /\ UNCHANGED <<urls, results, net>>

\* the caller has the results; another batch may start
CheckUrlsReturn ==
    /\ cuPc = "done"
    /\ cuPc' = "idle"
    /\ urls' = <<>> /\ results' = <<>> /\ net' = <<>> /\ cuI' = 0
    /\ inFlight' = 0 /\ waited' = FALSE

FileListIdle == Constructor(undefined, undefined)

InitCheckUrls == FileListIdle /\ CheckUrlsIdle /\ RandomIdle

NextCheckUrls ==
    \/ (\E us \in UrlLists : CheckUrls(us)) /\ UNCHANGED <<flVars, reVars>>
    \/ (\E d \in Bodies : FetchResolved(d)) /\ UNCHANGED <<flVars, reVars>>
    \/ FetchRejected /\ UNCHANGED <<flVars, reVars>>
    \/ WaitElapsed /\ UNCHANGED <<flVars, reVars>>
    \/ CheckUrlsReturn /\ UNCHANGED <<flVars, reVars>>

SpecCheckUrls == InitCheckUrls /\ [][NextCheckUrls]_vars

\* what checkUrls must report for the answer the network gave to a fetch
Expected(answer) ==
    [url |-> answer.url, hash |-> IF answer.ok THEN sha256hex(answer.data) ELSE "error"]

\* C8: when checkUrls returns, every url of the list has been fetched, in input
\* order, and results holds exactly one entry per url, in input order: the digest
\* of the data for a fetch that succeeded, "error" for one that failed.
C8_OneResultPerUrl ==
    cuPc = "done" =>
        /\ Len(results) = Len(urls)
        /\ Len(net) = Len(urls)
        /\ \A k \in 1..Len(urls) :
              /\ net[k].url = urls[k]
              /\ results[k].url = urls[k]
              /\ results[k] = Expected(net[k])
              /\ (results[k].hash = "error") <=> ~net[k].ok

C8_Witness ==
    /\ cuPc = "done"
    /\ Len(urls) = 3
    /\ ~net[1].ok
    /\ net[2].ok
    /\ ~net[3].ok

\* C9: at most one fetch is in flight, fetches are issued in input order, and
\* every fetch but the first of a batch is issued only after wait(2) has elapsed
\* since the fetch before it settled, whether that fetch succeeded or failed.
C9_DelayBetweenFetches ==
    /\ inFlight <= 1
    /\ \A k \in 1..Len(net) : net[k].url = urls[k]
    /\ (cuPc = "fetching" /\ cuI > 0) => waited

----------------------------------------------------------------------------
(* Utilities.getRandomElements.  The call, each turn of the loop (one draw *)
(* of Math.random()) and the return are steps of one synchronous call.     *)

MaxArray == 3       \* longest source array

Elems == {"x", "y"}
Arrays == SeqsUpTo(Elems, MaxArray)
Counts == 0..(MaxArray + 1)

\* arr[index] in JavaScript: undefined outside the array
At(arr, index) == IF index < Len(arr) THEN Some(arr[index + 1]) ELSE undefined

\* the values Math.floor(Math.random() * length) can take
RandomIndexes(length) == IF length = 0 THEN {0} ELSE 0..(length - 1)

\* the element is read and left in place
spliceAt_keep(arr, index) == arr

\* arr after arr.splice(index, 1)
spliceAt(arr, index) ==
    IF index < Len(arr)
    THEN SubSeq(arr, 1, index) \o SubSeq(arr, index + 2, Len(arr))
    ELSE arr

GetRandomElements(arr, cnt, dup) ==
    /\ rePc = "idle"
    /\ array' = arr
    /\ array0' = arr
    /\ count' = cnt
    /\ allowDuplicates' = dup
    /\ result' = <<>>
    /\ resultPos' = <<>>
    /\ reI' = 0
    /\ IF ~dup /\ cnt > Len(arr)
       THEN /\ rePc' = "threw"
            /\ tempArray' = <<>>
            /\ tempPos' = <<>>
       ELSE /\ rePc' = "loop"
            /\ tempArray' = (IF dup THEN <<>> ELSE arr)
            /\ tempPos' = (IF dup THEN <<>> ELSE [k \in 1..Len(arr) |-> k])

LoopDuplicates(randomIndex) ==
    /\ rePc = "loop"
    /\ allowDuplicates
    /\ reI < count
    /\ result' = Append(result, At(array, randomIndex))
    /\ resultPos' = Append(resultPos, randomIndex + 1)
    /\ reI' = reI + 1
    /\ UNCHANGED <<rePc, array, array0, count, allowDuplicates, tempArray, tempPos>>

LoopUnique(randomIndex) ==
    /\ rePc = "loop"
    /\ ~allowDuplicates
    /\ reI < count
    /\ result' = Append(result, At(tempArray, randomIndex))
    /\ resultPos' = Append(resultPos, tempPos[randomIndex + 1])
    /\ tempArray' = spliceAt(tempArray, randomIndex)
    /\ tempPos' = spliceAt(tempPos, randomIndex)
    /\ reI' = reI + 1
    /\ UNCHANGED <<rePc, array, array0, count, allowDuplicates>>

ReturnResult ==
    /\ rePc = "loop"
    /\ reI >= count
    /\ rePc' = "returned"
    /\ UNCHANGED <<array, array0, count, allowDuplicates, tempArray, tempPos, reI,
                   result, resultPos>>

\* the caller has the result or the error; another call may start
RandomDone ==
    /\ rePc \in {"returned", "threw"}
    /\ rePc' = "idle"
    /\ array' = <<>> /\ array0' = <<>> /\ count' = 0 /\ allowDuplicates' = TRUE
    /\ tempArray' = <<>> /\ tempPos' = <<>> /\ reI' = 0 /\ result' = <<>>
    /\ resultPos' = <<>>

InitRandom == FileListIdle /\ CheckUrlsIdle /\ RandomIdle

NextRandom ==
    \/ (\E arr \in Arrays, cnt \in Counts, dup \in BOOLEAN : GetRandomElements(arr, cnt, dup))
            /\ UNCHANGED <<flVars, cuVars>>
    \/ (\E randomIndex \in RandomIndexes(Len(array)) : LoopDuplicates(randomIndex))
            /\ UNCHANGED <<flVars, cuVars>>
    \/ (\E randomIndex \in RandomIndexes(Len(tempArray)) : LoopUnique(randomIndex))
            /\ UNCHANGED <<flVars, cuVars>>
    \/ ReturnResult /\ UNCHANGED <<flVars, cuVars>>
    \/ RandomDone /\ UNCHANGED <<flVars, cuVars>>

SpecRandom == InitRandom /\ [][NextRandom]_vars

\* C10: without duplicates, a count above the array length ends in the error
\* with no element produced; otherwise the call returns count elements, read
\* from pairwise distinct positions of the source; the source array is as it was
\* passed throughout.
C10_UniquePicksOrError ==
    (rePc # "idle" /\ ~allowDuplicates) =>
        /\ array = array0
        /\ (count > Len(array0)) <=> (rePc = "threw")
        /\ rePc = "threw" => result = <<>>
        /\ rePc = "returned" => Len(result) = count
        /\ \A j, k \in 1..Len(result) : j # k => resultPos[j] # resultPos[k]
        /\ \A k \in 1..Len(result) :
              resultPos[k] \in 1..Len(array0) /\ result[k] = Some(array0[resultPos[k]])

C10_Witness ==
    /\ rePc = "returned"
    /\ ~allowDuplicates
    /\ count = 2
    /\ array0 = <<"x", "x", "y">>
    /\ resultPos = <<2, 1>>

====
